---- MODULE Spec2Model ----
(***************************************************************************)
(* Anything Custom Skill Editor: the skill folders on disk, the main       *)
(* window, and the Add / Load / Modify / Delete dialogs of                 *)
(* Anything_CustomSkill_Editor.py.                                         *)
(*                                                                         *)
(* Every Python str (a form field, a file's content, the preview area, a   *)
(* folder name) is a sequence of tokens: a word of ordinary characters, a  *)
(* whitespace run, a JSON punctuation mark, or a quoted JSON string that   *)
(* carries its own content.  json.loads and json.dumps are a parser and a  *)
(* printer over those tokens, str.strip removes whitespace tokens at both  *)
(* ends.                                                                   *)
(***************************************************************************)
EXTENDS Integers, Sequences, FiniteSets, TLC

VARIABLES fs, ini, cfg, items, index, ui, dlg, fields, preview, last, ops

vars == <<fs, ini, cfg, items, index, ui, dlg, fields, preview, last, ops>>

----------------------------------------------------------------------------
(* Texts, tokens and JSON values *)

Tok(k) == [k |-> k, v |-> "", x |-> <<>>]
W(s) == [k |-> "w", v |-> s, x |-> <<>>]
StrTok(content) == [k |-> "str", v |-> "", x |-> content]
WS == Tok("ws")

\* the text made of one word
T(s) == <<W(s)>>

JNone == [t |-> "none", x |-> <<>>, m |-> <<>>, e |-> <<>>]
JTrue == [t |-> "true", x |-> <<>>, m |-> <<>>, e |-> <<>>]
JFalse == [t |-> "false", x |-> <<>>, m |-> <<>>, e |-> <<>>]
JBool(b) == IF b THEN JTrue ELSE JFalse
JStr(content) == [t |-> "str", x |-> content, m |-> <<>>, e |-> <<>>]
JObj(members) == [t |-> "obj", x |-> <<>>, m |-> members, e |-> <<>>]
JArr(elems) == [t |-> "arr", x |-> <<>>, m |-> <<>>, e |-> elems]
Member(key, val) == [k |-> key, v |-> val]

\* dict helpers: members are kept in insertion order, keys are unique
HasKey(obj, key) == \E i \in 1..Len(obj.m) : obj.m[i].k = key
GetKey(obj, key) == obj.m[CHOOSE i \in 1..Len(obj.m) : obj.m[i].k = key].v
GetOr(obj, key, default) == IF HasKey(obj, key) THEN GetKey(obj, key) ELSE default
PutKey(members, key, val) ==
    IF \E i \in 1..Len(members) : members[i].k = key
    THEN [i \in 1..Len(members) |->
            IF members[i].k = key THEN Member(key, val) ELSE members[i]]
    ELSE Append(members, Member(key, val))

\* str.strip(): drop leading and trailing whitespace
RECURSIVE LStrip(_)
LStrip(text) ==
    IF text # <<>> /\ Head(text).k = "ws" THEN LStrip(Tail(text)) ELSE text

RECURSIVE RStrip(_)
RStrip(text) ==
    IF text # <<>> /\ text[Len(text)].k = "ws"
    THEN RStrip(SubSeq(text, 1, Len(text) - 1))
    ELSE text

Strip(text) == RStrip(LStrip(text))

NoWs(text) == SelectSeq(text, LAMBDA tk : tk.k # "ws")

PFail == [ok |-> FALSE, v |-> JNone, rest |-> <<>>]
POk(val, rest) == [ok |-> TRUE, v |-> val, rest |-> rest]

\* json.loads: recursive descent over the non-whitespace tokens
RECURSIVE PValue(_), PMembers(_, _), PElements(_, _)
PValue(toks) ==
    IF toks = <<>> THEN PFail
    ELSE LET h == Head(toks) IN
         CASE h.k = "str"  -> POk(JStr(h.x), Tail(toks))
           [] h.k = "true" -> POk(JTrue, Tail(toks))
           [] h.k = "false" -> POk(JFalse, Tail(toks))
           [] h.k = "null" -> POk(JNone, Tail(toks))
           [] h.k = "{" ->
                IF Len(toks) >= 2 /\ toks[2].k = "}"
                THEN POk(JObj(<<>>), SubSeq(toks, 3, Len(toks)))
                ELSE PMembers(Tail(toks), <<>>)
           [] h.k = "[" ->
                IF Len(toks) >= 2 /\ toks[2].k = "]"
                THEN POk(JArr(<<>>), SubSeq(toks, 3, Len(toks)))
                ELSE PElements(Tail(toks), <<>>)
           [] OTHER -> PFail

PMembers(toks, acc) ==
    IF Len(toks) < 3 \/ toks[1].k # "str" \/ toks[2].k # ":" THEN PFail
    ELSE LET r == PValue(SubSeq(toks, 3, Len(toks))) IN
         IF ~r.ok \/ r.rest = <<>> THEN PFail
         ELSE LET acc2 == PutKey(acc, toks[1].x, r.v)
                  sep == Head(r.rest).k
              IN  CASE sep = "}" -> POk(JObj(acc2), Tail(r.rest))
                    [] sep = "," -> PMembers(Tail(r.rest), acc2)
                    [] OTHER -> PFail

PElements(toks, acc) ==
    LET r == PValue(toks) IN
    IF ~r.ok \/ r.rest = <<>> THEN PFail
    ELSE LET acc2 == Append(acc, r.v)
             sep == Head(r.rest).k
         IN  CASE sep = "]" -> POk(JArr(acc2), Tail(r.rest))
               [] sep = "," -> PElements(Tail(r.rest), acc2)
               [] OTHER -> PFail

Loads(text) ==
    LET r == PValue(NoWs(text)) IN
    IF r.ok /\ r.rest = <<>> THEN [ok |-> TRUE, v |-> r.v]
    ELSE [ok |-> FALSE, v |-> JNone]

\* json.dumps(value, indent=2)
RECURSIVE Dumps(_), DumpMembers(_), DumpElements(_)
Dumps(val) ==
    CASE val.t = "str"  -> <<StrTok(val.x)>>
      [] val.t = "true" -> <<Tok("true")>>
      [] val.t = "false" -> <<Tok("false")>>
      [] val.t = "obj"  ->
            IF val.m = <<>> THEN <<Tok("{"), Tok("}")>>
            ELSE <<Tok("{"), WS>> \o DumpMembers(val.m) \o <<WS, Tok("}")>>
      [] val.t = "arr"  ->
            IF val.e = <<>> THEN <<Tok("["), Tok("]")>>
            ELSE <<Tok("["), WS>> \o DumpElements(val.e) \o <<WS, Tok("]")>>
      [] OTHER -> <<Tok("null")>>

DumpMembers(members) ==
    LET one == <<StrTok(members[1].k), Tok(":"), WS>> \o Dumps(members[1].v) IN
    IF Len(members) = 1 THEN one
    ELSE one \o <<Tok(","), WS>> \o DumpMembers(Tail(members))

DumpElements(elems) ==
    IF Len(elems) = 1 THEN Dumps(elems[1])
    ELSE Dumps(elems[1]) \o <<Tok(","), WS>> \o DumpElements(Tail(elems))

----------------------------------------------------------------------------
(* Form fields *)

REQUIRED_FIELDS ==
    <<"name", "hubId", "description", "entrypoint_file", "entrypoint_params",
      "output_description", "version", "schema">>

FieldKeys == {REQUIRED_FIELDS[i] : i \in 1..Len(REQUIRED_FIELDS)}

\* '{ "text": { "description": "The text to reverse.", "type": "string" } }'
DefaultParamsText ==
    <<Tok("{"), WS, StrTok(T("text")), Tok(":"), WS, Tok("{"), WS,
      StrTok(T("description")), Tok(":"), WS,
      StrTok(T("The text to reverse.")), Tok(","), WS,
      StrTok(T("type")), Tok(":"), WS, StrTok(T("string")), WS,
      Tok("}"), WS, Tok("}")>>

REVERSE_TEXT_SKILL_DEFAULTS ==
    [name |-> T("Reverse Text"),
     hubId |-> T("reverse-text"),
     description |-> T("Takes a string input and returns the reversed version."),
     entrypoint_file |-> T("handler.js"),
     entrypoint_params |-> DefaultParamsText,
     output_description |-> T("Returns the reversed string."),
     version |-> T("1.0.0"),
     schema |-> T("skill-1.0.0")]

\* data = {key: field.text().strip()}; a key whose value is empty stands for
\* a key create_skill leaves out of data
StripFields(F) == [key \in FieldKeys |-> Strip(F[key])]

EmptyError(key) == [field |-> key, msg |-> "cannot be empty"]

\* a STEP 1 whose loop stops before the last field
ValidationErrorsButLast(F) ==
    LET data == [key \in FieldKeys |-> Strip(F[key])]
        bad == SelectSeq(SubSeq(REQUIRED_FIELDS, 1, Len(REQUIRED_FIELDS) - 1),
                         LAMBDA key : data[key] = <<>>)
    IN  [i \in 1..Len(bad) |-> EmptyError(bad[i])]

\* STEP 1 of create_skill: one error per empty field, in field order
ValidationErrors(F) ==
    LET data == StripFields(F)
        bad == SelectSeq(REQUIRED_FIELDS, LAMBDA key : data[key] = <<>>)
    IN  [i \in 1..Len(bad) |-> EmptyError(bad[i])]

\* a STEP 6 that stores the params as the text typed, not as parsed
CreatePluginDataRawParams(data, params_json) ==
    JObj(<<Member(T("active"), JTrue),
           Member(T("hubId"), JStr(data.hubId)),
           Member(T("name"), JStr(data.name)),
           Member(T("schema"), JStr(data.schema)),
           Member(T("version"), JStr(data.version)),
           Member(T("description"), JStr(data.description)),
           Member(T("entrypoint"),
                  JObj(<<Member(T("file"), JStr(data.entrypoint_file)),
                         Member(T("params"), JStr(data.entrypoint_params))>>))>>)

\* STEP 6 of create_skill: the plugin.json document
CreatePluginData(data, params_json) ==
    JObj(<<Member(T("active"), JTrue),
           Member(T("hubId"), JStr(data.hubId)),
           Member(T("name"), JStr(data.name)),
           Member(T("schema"), JStr(data.schema)),
           Member(T("version"), JStr(data.version)),
           Member(T("description"), JStr(data.description)),
           Member(T("entrypoint"),
                  JObj(<<Member(T("file"), JStr(data.entrypoint_file)),
                         Member(T("params"), params_json)>>))>>)

\* the default handler script of STEP 8
DefaultHandlerCode == T("module.exports.runtime = { handler }")

----------------------------------------------------------------------------
(* The filesystem *)

\* "root" is config["default_skill_output_path"]; "cwd" is the process's
\* working directory, against which a relative path is resolved
Dirs == {"root", "cwd"}

\* the names an immediate child of either directory can have
Names == {T("reverse-text"), T("Zip")}

PLUGIN_JSON == T("plugin.json")
HANDLER_JS == T("handler.js")

NoFiles == [f \in {} |-> <<>>]
\* ro: the files of a folder that os.access(path, os.W_OK) reports as not
\* writable
NoEntry == [kind |-> "none", files |-> NoFiles, ro |-> {}]
PlainFile == [kind |-> "file", files |-> NoFiles, ro |-> {}]
Folder(files) == [kind |-> "dir", files |-> files, ro |-> {}]

Exists(F, d, n) == F[d][n].kind # "none"
IsDir(F, d, n) == F[d][n].kind = "dir"
IsFile(F, d, n, f) == IsDir(F, d, n) /\ f \in DOMAIN F[d][n].files
ReadFile(F, d, n, f) == F[d][n].files[f]

\* an access test that finds every file writable
WritableAlways(F, d, n, f) == TRUE

\* os.access(path, os.W_OK) on an existing file; open(path, "w") raises
\* PermissionError when it is FALSE
Writable(F, d, n, f) == f \notin F[d][n].ro

\* open(path, "w").write(text) inside an existing folder
WriteFile(F, d, n, f, text) ==
    [F EXCEPT ![d][n].files =
        [g \in DOMAIN @ \cup {f} |-> IF g = f THEN text ELSE @[g]]]

\* os.makedirs(path, exist_ok=True) on a path that is absent or a folder
MakeDirs(F, d, n) ==
    IF IsDir(F, d, n) THEN F ELSE [F EXCEPT ![d][n] = Folder(NoFiles)]

----------------------------------------------------------------------------
(* Listing *)

PLACEHOLDER == T("Load Existing Skill")

\* str.lower()
LowerWord(s) == CASE s = "Zip" -> "zip"
                  [] s = "True" -> "true"
                  [] s = "False" -> "false"
                  [] OTHER -> s
Lower(text) ==
    [i \in DOMAIN text |->
        IF text[i].k = "w" THEN W(LowerWord(text[i].v)) ELSE text[i]]

\* the lower-cased folder names in ascending string order
LowerOrder == <<T("reverse-text"), T("zip")>>
KeyRank(name) == CHOOSE i \in 1..Len(LowerOrder) : LowerOrder[i] = Lower(name)

\* "needle in text" for two Python str
SubText(needle, text) ==
    \E i \in 1..Len(text) :
        /\ i + Len(needle) - 1 <= Len(text)
        /\ SubSeq(text, i, i + Len(needle) - 1) = needle

\* "key in pdata" for a parsed JSON value; KeyInRaises marks a TypeError
KeyIn(key, pdata) ==
    CASE pdata.t = "obj" -> HasKey(pdata, key)
      [] pdata.t = "arr" -> \E i \in 1..Len(pdata.e) : pdata.e[i] = JStr(key)
      [] pdata.t = "str" -> SubText(key, pdata.x)
      [] OTHER -> FALSE
KeyInRaises(pdata) == pdata.t \notin {"obj", "arr", "str"}

LISTING_KEYS ==
    {T("name"), T("hubId"), T("description"), T("version"), T("schema")}

\* the test populate_skill_dropdown applies to one entry of the skills folder
IsValidSubdir(F, n) ==
    /\ IsDir(F, "root", n)
    /\ IsFile(F, "root", n, PLUGIN_JSON)
    /\ IsFile(F, "root", n, HANDLER_JS)
    /\ LET r == Loads(ReadFile(F, "root", n, PLUGIN_JSON)) IN
       /\ r.ok
       /\ ~KeyInRaises(r.v)
       /\ \A key \in LISTING_KEYS : KeyIn(key, r.v)

\* the entries os.listdir(skills_dir) returns that pass the test
ValidSubdirs(F) == {n \in DOMAIN F["root"] : IsValidSubdir(F, n)}

\* a sort without the key: upper-case letters come before lower-case ones
SortedListingsByCase(S) ==
    {q \in [1..Cardinality(S) -> S] :
        /\ \A n \in S : \E i \in DOMAIN q : q[i] = n
        /\ \A i, j \in DOMAIN q :
              (i < j /\ q[i] # q[j]) => q[i] = T("Zip")}

\* sorted(valid_subdirs, key=lambda s: s.lower()): every arrangement of the
\* names that ascends by lower-cased name (ties keep os.listdir's order)
SortedListings(S) ==
    {q \in [1..Cardinality(S) -> S] :
        /\ \A n \in S : \E i \in DOMAIN q : q[i] = n
        /\ \A i, j \in DOMAIN q : i < j => KeyRank(q[i]) <= KeyRank(q[j])}

\* the dropdown's items after populate_skill_dropdown
populate_skill_dropdown(F) ==
    {<<PLACEHOLDER>> \o q : q \in SortedListings(ValidSubdirs(F))}

----------------------------------------------------------------------------
(* Application configuration: INI_CONFIG and the JSON config file *)

\* the entries of the log-level combo box
LOG_LEVELS == {T("Standard"), T("Verbose")}

SKILLS_PATH == T("C:/AnythingLLM/plugins/agent-skills")

APP_CONFIG_DEFAULTS ==
    [log_level |-> T("Standard"),
     default_skill_output_path |-> SKILLS_PATH,
     lock_fields_by_default |-> TRUE,
     show_field_tooltips |-> TRUE,
     allow_skill_overwrite |-> FALSE]

\* str(b).lower() for a Python bool
BoolText(b) == Lower(IF b THEN T("True") ELSE T("False"))

\* ConfigParser.getboolean for the values the program stores: the lower-cased
\* text is looked up in BOOLEAN_STATES
GetBoolean(text) ==
    CASE Lower(text) \in {T("1"), T("yes"), T("true"), T("on")} -> TRUE
      [] Lower(text) \in {T("0"), T("no"), T("false"), T("off")} -> FALSE

\* an assignment of the five INI keys that gives allow_overwrite the value
\* of lock_fields
IniValuesCrossed(config) ==
    [log_level |-> config.log_level,
     output_path |-> config.default_skill_output_path,
     lock_fields |-> BoolText(config.lock_fields_by_default),
     show_tooltips |-> BoolText(config.show_field_tooltips),
     allow_overwrite |-> BoolText(config.lock_fields_by_default)]

\* the keys of sections Logging and SkillDefaults that save_config assigns
IniValues(config) ==
    [log_level |-> config.log_level,
     output_path |-> config.default_skill_output_path,
     lock_fields |-> BoolText(config.lock_fields_by_default),
     show_tooltips |-> BoolText(config.show_field_tooltips),
     allow_overwrite |-> BoolText(config.allow_skill_overwrite)]

\* ConfigParser.read: every value comes back without surrounding whitespace
ReadIni(file) == [key \in DOMAIN file |-> Strip(file[key])]

\* the document json.dump(config, f, indent=2) writes
ConfigData(config) ==
    JObj(<<Member(T("log_level"), JStr(config.log_level)),
           Member(T("default_skill_output_path"),
                  JStr(config.default_skill_output_path)),
           Member(T("lock_fields_by_default"),
                  JBool(config.lock_fields_by_default)),
           Member(T("show_field_tooltips"), JBool(config.show_field_tooltips)),
           Member(T("allow_skill_overwrite"),
                  JBool(config.allow_skill_overwrite))>>)

NoConfigFile == [exists |-> FALSE, text |-> <<>>]
ConfigFile(text) == [exists |-> TRUE, text |-> text]

\* load_app_config: the parsed JSON config file, or the defaults when the
\* file does not exist
load_app_config(C) ==
    IF C.json.exists /\ Loads(C.json.text).ok THEN Loads(C.json.text).v
    ELSE ConfigData(APP_CONFIG_DEFAULTS)

\* the widgets of ConfigDialog
NoWidgets ==
    [log_level |-> <<>>, path |-> <<>>, lock |-> FALSE, tooltips |-> FALSE,
     allow |-> FALSE]

\* the config dict save_config builds from the widgets
FormConfig(w) ==
    [log_level |-> w.log_level,
     default_skill_output_path |-> Strip(w.path),
     lock_fields_by_default |-> w.lock,
     show_field_tooltips |-> w.tooltips,
     allow_skill_overwrite |-> w.allow]

\* a log file: absent, or the entries written so far (without timestamps)
NoLog == [exists |-> FALSE, lines |-> <<>>]
LogFile(lines) == [exists |-> TRUE, lines |-> lines]
LogEntry(kind, detail) == [kind |-> kind, detail |-> detail]

\* open(path, "w").write(""): the file is emptied at once
TruncateLog(file) == LogFile(<<>>)

\* open(path, "a").write(entry)
AppendLog(file, entry) == LogFile(Append(file.lines, entry))

\* log_standard(message)
log_standard(C, kind, detail) ==
    [C EXCEPT !.log.standard = AppendLog(@, LogEntry(kind, detail))]

\* log_verbose(message, ...)
log_verbose(C, kind, detail) ==
    [C EXCEPT !.log.verbose = AppendLog(@, LogEntry(kind, detail))]

\* the configuration a session starts from: both files agree with config,
\* both are writable, nothing is logged yet, no ConfigDialog is open
StartConfig(config) ==
    [ini |-> IniValues(config),
     json |-> ConfigFile(Dumps(ConfigData(config))),
     ro |-> {},
     log |-> [standard |-> NoLog, verbose |-> NoLog],
     widgets |-> NoWidgets]

----------------------------------------------------------------------------
(* Initial contents of the skills folder *)

\* a well-formed plugin.json of a skill stored in folder n: what an earlier
\* create_skill wrote
StoredPluginData(n) ==
    CreatePluginData(
        [name |-> T("Stored Skill"), hubId |-> n,
         description |-> T("Stored description."),
         entrypoint_file |-> HANDLER_JS,
         entrypoint_params |-> DefaultParamsText,
         output_description |-> T("Stored output."),
         version |-> T("0.9.0"), schema |-> T("skill-1.0.0")],
        Loads(DefaultParamsText).v)

\* the same document without its "version" key
MissingKeyData(n) ==
    JObj(SelectSeq(StoredPluginData(n).m, LAMBDA mem : mem.k # T("version")))

\* valid JSON that is not an object
KeyArrayData ==
    JArr(<<JStr(T("name")), JStr(T("hubId")), JStr(T("description")),
           JStr(T("version")), JStr(T("schema"))>>)

\* text json.load rejects
InvalidJsonText == <<Tok("{"), StrTok(T("name"))>>

StoredHandlerCode == T("stored handler")

Files2(f1, t1, f2, t2) == [f \in {f1, f2} |-> IF f = f1 THEN t1 ELSE t2]
Files1(f1, t1) == [f \in {f1} |-> t1]

StoredSkill(n) ==
    Folder(Files2(PLUGIN_JSON, Dumps(StoredPluginData(n)),
                  HANDLER_JS, StoredHandlerCode))

\* what the skills folder can hold under name n when the program starts
InitEntries(n) ==
    IF n = T("reverse-text") THEN {NoEntry, StoredSkill(n)}
    ELSE { NoEntry,
           PlainFile,
           Folder(NoFiles),
           StoredSkill(n),
           Folder(Files1(PLUGIN_JSON, Dumps(StoredPluginData(n)))),
           Folder(Files1(HANDLER_JS, StoredHandlerCode)),
           Folder(Files2(PLUGIN_JSON, InvalidJsonText,
                         HANDLER_JS, StoredHandlerCode)),
           Folder(Files2(PLUGIN_JSON, Dumps(MissingKeyData(n)),
                         HANDLER_JS, StoredHandlerCode)),
           Folder(Files2(PLUGIN_JSON, Dumps(KeyArrayData),
                         HANDLER_JS, StoredHandlerCode)) }

NoDialog ==
    [kind |-> "none", dir |-> "", name |-> <<>>, allow |-> FALSE,
     update_btn |-> FALSE]

BlankFields == [key \in FieldKeys |-> <<>>]

NoResult ==
    [op |-> "none", outcome |-> "none", errors |-> <<>>, accepted |-> FALSE,
     data |-> BlankFields, dir |-> "", name |-> <<>>]

Result(op, outcome, errors, accepted, data, dir, name) ==
    [op |-> op, outcome |-> outcome, errors |-> errors, accepted |-> accepted,
     data |-> data, dir |-> dir, name |-> name]

\* SkillEditor.__init__ / init_ui: the dropdown is filled from the skills
\* folder, Add New is enabled, Modify Skill and Delete Skill are disabled
Init ==
    /\ \E root \in [Names -> UNION {InitEntries(n) : n \in Names}] :
          /\ \A n \in Names : root[n] \in InitEntries(n)
          /\ fs = [d \in Dirs |->
                     IF d = "root" THEN root ELSE [n \in Names |-> NoEntry]]
    /\ \E lock, allow \in BOOLEAN :
          LET config == [APP_CONFIG_DEFAULTS EXCEPT
                            !.lock_fields_by_default = lock,
                            !.allow_skill_overwrite = allow]
          IN  /\ ini = IniValues(config)
              /\ cfg = StartConfig(config)
    /\ items \in populate_skill_dropdown(fs)
    /\ index = 0
    /\ ui = [add |-> TRUE, modify |-> FALSE, delete |-> FALSE, label |-> FALSE]
    /\ dlg = NoDialog
    /\ fields = BlankFields
    /\ preview = <<>>
    /\ last = NoResult
    /\ ops = 0

----------------------------------------------------------------------------
(* What the user can type *)

\* at most MaxOps operations of one session change the filesystem
MaxOps == 1

\* the edits of one form field the user can make
FieldEdits ==
    { [key |-> "name", val |-> <<WS>>],
      [key |-> "hubId", val |-> <<WS, W("Zip"), WS>>],
      [key |-> "entrypoint_file", val |-> T("main.js")],
      [key |-> "entrypoint_params", val |-> <<Tok("{"), StrTok(T("text"))>>],
      [key |-> "entrypoint_params", val |-> <<WS, StrTok(T("text"))>>],
      [key |-> "schema", val |-> T("skill-2.0.0")] }

\* the forms the user can reach from the form a dialog opened with
FormInputs(base) ==
    {base} \cup {[base EXCEPT ![ed.key] = ed.val] : ed \in FieldEdits}

\* what the user can type into a dialog's preview area
CustomHandlerCode == T("custom handler")
PreviewTexts == { <<WS>>, <<WS>> \o CustomHandlerCode \o <<WS>> }

\* edits of a previewed document: another hubId, or the name removed
PreviewEdits(text) ==
    LET r == Loads(text) IN
    IF r.ok /\ r.v.t = "obj"
    THEN { Dumps(JObj(PutKey(r.v.m, T("hubId"), JStr(T("edited-id"))))),
           Dumps(JObj(SelectSeq(r.v.m, LAMBDA mem : mem.k # T("name")))) }
    ELSE {}

----------------------------------------------------------------------------
(* Loading a plugin.json into a form *)

\* json.dumps(value) with the default separators
RECURSIVE DumpsCompact(_), CompactMembers(_), CompactElements(_)
DumpsCompact(val) ==
    CASE val.t = "str"  -> <<StrTok(val.x)>>
      [] val.t = "true" -> <<Tok("true")>>
      [] val.t = "false" -> <<Tok("false")>>
      [] val.t = "obj"  ->
            IF val.m = <<>> THEN <<Tok("{"), Tok("}")>>
            ELSE <<Tok("{")>> \o CompactMembers(val.m) \o <<Tok("}")>>
      [] val.t = "arr"  ->
            IF val.e = <<>> THEN <<Tok("["), Tok("]")>>
            ELSE <<Tok("[")>> \o CompactElements(val.e) \o <<Tok("]")>>
      [] OTHER -> <<Tok("null")>>

CompactMembers(members) ==
    LET one == <<StrTok(members[1].k), Tok(":"), WS>>
               \o DumpsCompact(members[1].v) IN
    IF Len(members) = 1 THEN one
    ELSE one \o <<Tok(","), WS>> \o CompactMembers(Tail(members))

CompactElements(elems) ==
    IF Len(elems) = 1 THEN DumpsCompact(elems[1])
    ELSE DumpsCompact(elems[1]) \o <<Tok(","), WS>> \o CompactElements(Tail(elems))

\* repr(value): like the compact form, except that strings are quoted with
\* apostrophes and true is spelled True
RECURSIVE PyRepr(_), ReprMembers(_), ReprElements(_)
PyRepr(val) ==
    CASE val.t = "str"  -> <<[k |-> "pystr", v |-> "", x |-> val.x]>>
      [] val.t = "true" -> T("True")
      [] val.t = "false" -> T("False")
      [] val.t = "obj"  ->
            IF val.m = <<>> THEN <<Tok("{"), Tok("}")>>
            ELSE <<Tok("{")>> \o ReprMembers(val.m) \o <<Tok("}")>>
      [] val.t = "arr"  ->
            IF val.e = <<>> THEN <<Tok("["), Tok("]")>>
            ELSE <<Tok("[")>> \o ReprElements(val.e) \o <<Tok("]")>>
      [] OTHER -> T("None")

ReprMembers(members) ==
    LET one == <<[k |-> "pystr", v |-> "", x |-> members[1].k], Tok(":"), WS>>
               \o PyRepr(members[1].v) IN
    IF Len(members) = 1 THEN one
    ELSE one \o <<Tok(","), WS>> \o ReprMembers(Tail(members))

ReprElements(elems) ==
    IF Len(elems) = 1 THEN PyRepr(elems[1])
    ELSE PyRepr(elems[1]) \o <<Tok(","), WS>> \o ReprElements(Tail(elems))

\* str(value)
PyStr(val) == IF val.t = "str" THEN val.x ELSE PyRepr(val)

DefaultsData ==
    JObj([i \in 1..Len(REQUIRED_FIELDS) |->
            Member(T(REQUIRED_FIELDS[i]),
                   JStr(REVERSE_TEXT_SKILL_DEFAULTS[REQUIRED_FIELDS[i]]))])

RECURSIVE FillMissing(_, _)
FillMissing(members, i) ==
    IF i > Len(REQUIRED_FIELDS) THEN members
    ELSE FillMissing(
            IF \E j \in 1..Len(members) : members[j].k = T(REQUIRED_FIELDS[i])
            THEN members
            ELSE Append(members, Member(T(REQUIRED_FIELDS[i]), JStr(<<>>))),
            i + 1)

\* plugin_data as ModifySkillDialog.__init__ and LoadSkillDialog.__init__
\* leave it before the fields are filled: the defaults when the file is
\* missing or unparseable, the flattened document otherwise, and the
\* document as loaded when flattening raised
FlattenPluginData(F, d, n) ==
    IF ~IsFile(F, d, n, PLUGIN_JSON) THEN DefaultsData
    ELSE LET r == Loads(ReadFile(F, d, n, PLUGIN_JSON)) IN
         IF ~r.ok THEN DefaultsData
         ELSE IF r.v.t # "obj" THEN r.v
         ELSE IF ~HasKey(r.v, T("entrypoint"))
         THEN JObj(FillMissing(r.v.m, 1))
         ELSE LET ep == GetKey(r.v, T("entrypoint")) IN
              IF ep.t # "obj" THEN r.v
              ELSE LET file == GetOr(ep, T("file"), JStr(HANDLER_JS))
                       params == GetOr(ep, T("params"), JStr(<<>>))
                       ptext == IF params.t = "obj" THEN DumpsCompact(params)
                                ELSE PyStr(params)
                   IN  JObj(FillMissing(
                           PutKey(PutKey(r.v.m, T("entrypoint_file"), file),
                                  T("entrypoint_params"), JStr(ptext)), 1))

\* ModifySkillDialog.__init__: le.setText(plugin_data.get(key, "")) raises
\* when plugin_data is not a dict or the value is not a str
ModifyInitRaises(F, d, n) ==
    LET pd == FlattenPluginData(F, d, n) IN
    \/ pd.t # "obj"
    \/ \E key \in FieldKeys : GetOr(pd, T(key), JStr(<<>>)).t # "str"

ModifyInitFields(F, d, n) ==
    LET pd == FlattenPluginData(F, d, n) IN
    [key \in FieldKeys |-> GetOr(pd, T(key), JStr(<<>>)).x]

\* LoadSkillDialog.__init__ raises when plugin_data is not a dict
\* (plugin_data.get) or has no "entrypoint_params" (KeyError in the handler
\* of the first try)
LoadInitRaises(F, d, n) ==
    LET pd == FlattenPluginData(F, d, n) IN
    \/ pd.t # "obj"
    \/ ~HasKey(pd, T("entrypoint_params"))

----------------------------------------------------------------------------
(* Main window *)

\* the module-level imports do not bind the name shutil
ShutilImported == FALSE

\* a variant of the else branch that only hides the label
AfterPopulateKeepsButtons(u) == [u EXCEPT !.label = FALSE]

\* the two currentIndexChanged signals populate_skill_dropdown causes
\* (clear, then addItem on the empty box) both run on_skill_selected's
\* else branch
AfterPopulate(u)== [u EXCEPT !.modify = FALSE, !.delete = FALSE, !.label = FALSE]

\* the filesystem changes of one session are bounded
Budget == ops' = IF fs' # fs THEN ops + 1 ELSE ops

currentText == items[index + 1]

\* placeholder_popup, sender "Add New": AddSkillDialog.__init__
OpenAddDialog ==
    /\ dlg.kind = "none"
    /\ ui.add
    /\ ops < MaxOps
    /\ dlg' = [NoDialog EXCEPT !.kind = "add", !.allow = GetBoolean(ini.allow_overwrite)]
    /\ fields' = REVERSE_TEXT_SKILL_DEFAULTS
    /\ preview' = <<>>
    /\ last' = NoResult
    /\ UNCHANGED <<fs, ini, cfg, items, index, ui, ops>>

\* placeholder_popup, sender "Modify Skill": ModifySkillDialog.__init__ with
\* the dropdown's text as skill_folder, a path relative to the working
\* directory
OpenModifyDialog ==
    /\ dlg.kind = "none"
    /\ ui.modify
    /\ index > 0
    /\ ops < MaxOps
    /\ IF ModifyInitRaises(fs, "cwd", currentText)
       THEN /\ last' = Result("placeholder_popup", "unhandled", <<>>, FALSE,
                              BlankFields, "cwd", currentText)
            /\ UNCHANGED <<dlg, fields, preview>>
       ELSE /\ dlg' = [NoDialog EXCEPT !.kind = "modify", !.dir = "cwd",
                                       !.name = currentText]
            /\ fields' = ModifyInitFields(fs, "cwd", currentText)
            /\ preview' = <<>>
            /\ last' = NoResult
    /\ UNCHANGED <<fs, ini, cfg, items, index, ui, ops>>

\* placeholder_popup, sender "Delete Skill": DeleteSkillDialog.__init__
OpenDeleteDialog ==
    /\ dlg.kind = "none"
    /\ ui.delete
    /\ index > 0
    /\ ops < MaxOps
    /\ dlg' = [NoDialog EXCEPT !.kind = "delete", !.dir = "cwd",
                               !.name = currentText]
    /\ last' = NoResult
    /\ UNCHANGED <<fs, ini, cfg, items, index, ui, fields, preview, ops>>

\* on_skill_selected(idx): the user picks another entry of the dropdown
on_skill_selected ==
    /\ dlg.kind = "none"
    /\ \E idx \in 0..(Len(items) - 1) :
          /\ idx # index
          /\ index' = idx
          /\ IF idx > 0
             THEN IF LoadInitRaises(fs, "root", items[idx + 1])
                  THEN /\ ui' = [ui EXCEPT !.label = FALSE]
                       /\ dlg' = dlg
                       /\ last' = Result("on_skill_selected", "exception", <<>>,
                                         FALSE, BlankFields, "root",
                                         items[idx + 1])
                  ELSE /\ dlg' = [NoDialog EXCEPT !.kind = "load",
                                     !.dir = "root", !.name = items[idx + 1]]
                       /\ ui' = ui
                       /\ last' = NoResult
             ELSE /\ ui' = AfterPopulate(ui)
                  /\ dlg' = dlg
                  /\ last' = NoResult
    /\ UNCHANGED <<fs, ini, cfg, items, fields, preview, ops>>

\* LoadSkillDialog.continue_load, then the Accepted branch of
\* on_skill_selected
continue_load ==
    /\ dlg.kind = "load"
    /\ ui' = [add |-> FALSE, modify |-> TRUE, delete |-> TRUE, label |-> TRUE]
    /\ dlg' = NoDialog
    /\ last' = Result("continue_load", "success", <<>>, TRUE, BlankFields,
                      dlg.dir, dlg.name)
    /\ UNCHANGED <<fs, ini, cfg, items, index, fields, preview, ops>>

\* Cancel in LoadSkillDialog: the rejected branch of on_skill_selected
CancelLoad ==
    /\ dlg.kind = "load"
    /\ ui' = AfterPopulate(ui)
    /\ dlg' = NoDialog
    /\ last' = NoResult
    /\ UNCHANGED <<fs, ini, cfg, items, index, fields, preview, ops>>

----------------------------------------------------------------------------
(* AddSkillDialog *)

\* a preview document that switches the skill off
PreviewDataInactive(F) ==
    LET data == StripFields(F)
        parsed == Loads(data.entrypoint_params)
        params_obj == IF parsed.ok THEN parsed.v ELSE JStr(data.entrypoint_params)
    IN  JObj(<<Member(T("active"), JFalse),
               Member(T("hubId"), JStr(data.hubId)),
               Member(T("name"), JStr(data.name)),
               Member(T("schema"), JStr(data.schema)),
               Member(T("version"), JStr(data.version)),
               Member(T("description"), JStr(data.description)),
               Member(T("output_description"), JStr(data.output_description)),
               Member(T("entrypoint"),
                      JObj(<<Member(T("file"), JStr(data.entrypoint_file)),
                             Member(T("params"), params_obj)>>))>>)

\* the document preview_skill shows (the same code in both dialogs)
PreviewData(F) ==
    LET data == StripFields(F)
        parsed == Loads(data.entrypoint_params)
        params_obj == IF parsed.ok THEN parsed.v ELSE JStr(data.entrypoint_params)
    IN  JObj(<<Member(T("active"), JTrue),
               Member(T("hubId"), JStr(data.hubId)),
               Member(T("name"), JStr(data.name)),
               Member(T("schema"), JStr(data.schema)),
               Member(T("version"), JStr(data.version)),
               Member(T("description"), JStr(data.description)),
               Member(T("output_description"), JStr(data.output_description)),
               Member(T("entrypoint"),
                      JObj(<<Member(T("file"), JStr(data.entrypoint_file)),
                             Member(T("params"), params_obj)>>))>>)

\* a STEP 8 without the default script
HandlerCodeNoDefault(text) == Strip(text)

\* STEP 8 of create_skill
HandlerCode(text) == IF Strip(text) = <<>> THEN DefaultHandlerCode ELSE Strip(text)

\* a STEP 3 that lets every target through
OverwriteNeverRefused(F, target, allow) == FALSE

\* STEP 3 of create_skill: the target exists and overwriting is not allowed
OverwriteRefused(F, target, allow) == Exists(F, "root", target) /\ ~allow

\* STEPS 4 to 9 of create_skill on a target that is absent or a folder
CreateWrites(F, data, params_json, text) ==
    WriteFile(
        WriteFile(MakeDirs(F, "root", data.hubId), "root", data.hubId,
                  PLUGIN_JSON, Dumps(CreatePluginData(data, params_json))),
        "root", data.hubId, data.entrypoint_file, HandlerCode(text))

\* AddSkillDialog.create_skill, after confirm_create's Yes; a success ends
\* the dialog, and placeholder_popup then rebuilds the dropdown (the lines
\* the handler appends to the two logs are those of WriteStandardLog and
\* WriteVerboseLog)
create_skill ==
    /\ dlg.kind = "add"
    /\ LET data == StripFields(fields)
           errors == ValidationErrors(fields)
           target == data.hubId
           params == Loads(data.entrypoint_params)
           fail(outcome, errs, F) ==
               /\ last' = Result("create_skill", outcome, errs, FALSE, data,
                                 "root", target)
               /\ fs' = F
               /\ UNCHANGED <<ini, cfg, items, index, ui, dlg, fields, preview>>
       IN  IF errors # <<>> THEN fail("validation", errors, fs)
           ELSE IF OverwriteRefused(fs, target, dlg.allow)
           THEN fail("exists", <<>>, fs)
           ELSE IF fs["root"][target].kind = "file"
           THEN fail("exception", <<>>, fs)
           ELSE IF ~params.ok
           THEN fail("invalid_json", <<>>, MakeDirs(fs, "root", target))
           ELSE IF /\ IsFile(fs, "root", target, PLUGIN_JSON)
                   /\ ~Writable(fs, "root", target, PLUGIN_JSON)
           THEN fail("exception", <<>>, fs)
           ELSE IF /\ IsFile(fs, "root", target, data.entrypoint_file)
                   /\ ~Writable(fs, "root", target, data.entrypoint_file)
           THEN fail("exception", <<>>,
                     WriteFile(fs, "root", target, PLUGIN_JSON,
                               Dumps(CreatePluginData(data, params.v))))
           ELSE /\ fs' = CreateWrites(fs, data, params.v, preview)
                /\ last' = Result("create_skill", "success", <<>>, TRUE, data,
                                  "root", target)
                /\ items' \in populate_skill_dropdown(fs')
                /\ index' = 0
                /\ ui' = AfterPopulate(ui)
                /\ dlg' = NoDialog
                /\ fields' = BlankFields
                /\ preview' = <<>>
                /\ UNCHANGED <<ini, cfg>>
    /\ Budget
    /\ ops' <= MaxOps

\* AddSkillDialog.preview_skill: the preview area is filled, then
\* self.update_btn, which this dialog does not have, raises AttributeError
add_preview_skill ==
    /\ dlg.kind = "add"
    /\ preview' = Dumps(PreviewData(fields))
    /\ last' = Result("preview_skill", "unhandled", <<>>, FALSE,
                      StripFields(fields), "", <<>>)
    /\ UNCHANGED <<fs, ini, cfg, items, index, ui, dlg, fields, ops>>

\* the user types into the form (possible when the fields are not locked)
\* before asking for a preview; in ModifySkillDialog the field's FocusIn
\* runs eventFilter first
EditFields ==
    /\ dlg.kind \in {"add", "modify"}
    /\ ~GetBoolean(ini.lock_fields)
    /\ dlg.kind = "add" => preview = <<>>
    /\ \E F \in FormInputs(IF dlg.kind = "add" THEN REVERSE_TEXT_SKILL_DEFAULTS
                           ELSE ModifyInitFields(fs, dlg.dir, dlg.name)) :
          /\ F # fields
          /\ fields' = F
    /\ IF dlg.kind = "modify"
       THEN /\ dlg' = [dlg EXCEPT !.update_btn = FALSE]
            /\ preview' = <<>>
       ELSE UNCHANGED <<dlg, preview>>
    /\ last' = NoResult
    /\ UNCHANGED <<fs, ini, cfg, items, index, ui, ops>>

\* an event filter that clears the preview and leaves the button alone
eventFilterKeepsButton ==
    /\ dlg.kind = "modify"
    /\ dlg.update_btn \/ preview # <<>>
    /\ preview' = <<>>
    /\ last' = NoResult
    /\ UNCHANGED <<fs, ini, cfg, items, index, ui, dlg, fields, ops>>

\* ModifySkillDialog.eventFilter: a form field receives the focus
eventFilter ==
    /\ dlg.kind = "modify"
    /\ dlg.update_btn \/ preview # <<>>
    /\ dlg' = [dlg EXCEPT !.update_btn = FALSE]
    /\ preview' = <<>>
    /\ last' = NoResult
    /\ UNCHANGED <<fs, ini, cfg, items, index, ui, fields, ops>>

\* clear_form (the same code in both dialogs)
clear_form ==
    /\ dlg.kind \in {"add", "modify"}
    /\ fields # BlankFields
    /\ fields' = BlankFields
    /\ last' = NoResult
    /\ UNCHANGED <<fs, ini, cfg, items, index, ui, dlg, preview, ops>>

\* the user edits the preview area, which is never read-only; a previewed
\* document is edited where it is read back, in ModifySkillDialog
EditPreview ==
    /\ dlg.kind \in {"add", "modify"}
    /\ \E text \in PreviewTexts \cup
                   (IF dlg.kind = "modify" THEN PreviewEdits(preview) ELSE {}) :
          /\ text # preview
          /\ preview' = text
    /\ last' = NoResult
    /\ UNCHANGED <<fs, ini, cfg, items, index, ui, dlg, fields, ops>>

\* Cancel in AddSkillDialog: placeholder_popup rebuilds the dropdown
CancelAdd ==
    /\ dlg.kind = "add"
    /\ dlg' = NoDialog
    /\ fields' = BlankFields
    /\ preview' = <<>>
    /\ items' \in populate_skill_dropdown(fs)
    /\ index' = 0
    /\ ui' = AfterPopulate(ui)
    /\ last' = NoResult
    /\ UNCHANGED <<fs, ini, cfg, ops>>

----------------------------------------------------------------------------
(* ModifySkillDialog *)

\* ModifySkillDialog.preview_skill
modify_preview_skill ==
    /\ dlg.kind = "modify"
    /\ preview' = Dumps(PreviewData(fields))
    /\ dlg' = [dlg EXCEPT !.update_btn = TRUE]
    /\ last' = Result("preview_skill", "success", <<>>, FALSE,
                      StripFields(fields), dlg.dir, dlg.name)
    /\ UNCHANGED <<fs, ini, cfg, items, index, ui, fields, ops>>

\* "not x" for a str
BlankStr(val) == val.t = "str" /\ Strip(val.x) = <<>>

\* "not params": None, False, "", {} and [] are false
Falsy(val) ==
    \/ val.t \in {"none", "false"}
    \/ val.t = "str" /\ val.x = <<>>
    \/ val.t = "obj" /\ val.m = <<>>
    \/ val.t = "arr" /\ val.e = <<>>

UPDATE_KEYS == <<"name", "hubId", "description", "version", "schema">>

\* update_skill's validation of the previewed dict, in the order of the code
UpdateErrors(data) ==
    LET bad == SelectSeq(UPDATE_KEYS,
                  LAMBDA key : \/ ~HasKey(data, T(key))
                               \/ BlankStr(GetKey(data, T(key))))
        top == [i \in 1..Len(bad) |-> EmptyError(bad[i])]
        ep == GetOr(data, T("entrypoint"), JNone)
        entry ==
            IF ep.t # "obj"
            THEN <<[field |-> "entrypoint", msg |-> "must be a dictionary"]>>
            ELSE (IF BlankStr(GetOr(ep, T("file"), JStr(<<>>)))
                  THEN <<EmptyError("entrypoint_file")>> ELSE <<>>)
                 \o
                 (IF \/ Falsy(GetOr(ep, T("params"), JNone))
                     \/ BlankStr(GetOr(ep, T("params"), JNone))
                  THEN <<EmptyError("entrypoint_params")>> ELSE <<>>)
        out == IF BlankStr(GetOr(data, T("output_description"), JStr(<<>>)))
               THEN <<EmptyError("output_description")>> ELSE <<>>
    IN  top \o entry \o out

\* the validation raises (TypeError / AttributeError, caught by nothing) when
\* the preview is not a dict, or entrypoint.file or output_description is
\* not a str
UpdateRaises(data) ==
    \/ data.t # "obj"
    \/ /\ GetOr(data, T("entrypoint"), JNone).t = "obj"
       /\ GetOr(GetKey(data, T("entrypoint")), T("file"), JStr(<<>>)).t # "str"
    \/ GetOr(data, T("output_description"), JStr(<<>>)).t # "str"

\* ModifySkillDialog.update_skill, after confirm_update's Yes; a success
\* ends the dialog, and placeholder_popup then rebuilds the dropdown and
\* calls reset_ui_after_save
update_skill ==
    /\ dlg.kind = "modify"
    /\ dlg.update_btn
    /\ LET parsed == Loads(preview)
           data == parsed.v
           fail(outcome, errs) ==
               /\ last' = Result("update_skill", outcome, errs, FALSE,
                                 BlankFields, dlg.dir, dlg.name)
               /\ UNCHANGED <<fs, ini, cfg, items, index, ui, dlg, fields, preview>>
       IN  IF ~parsed.ok THEN fail("invalid_preview", <<>>)
           ELSE IF UpdateRaises(data) THEN fail("unhandled", <<>>)
           ELSE IF UpdateErrors(data) # <<>>
           THEN fail("validation", UpdateErrors(data))
           ELSE IF fs[dlg.dir][dlg.name].kind = "file"
           THEN fail("no_folder", <<>>)
           ELSE IF /\ IsFile(fs, dlg.dir, dlg.name, PLUGIN_JSON)
                   /\ ~Writable(fs, dlg.dir, dlg.name, PLUGIN_JSON)
           THEN fail("not_writable", <<>>)
           ELSE /\ fs' = WriteFile(MakeDirs(fs, dlg.dir, dlg.name),
                                   dlg.dir, dlg.name, PLUGIN_JSON, Dumps(data))
                /\ last' = Result("update_skill", "success", <<>>, TRUE,
                                  BlankFields, dlg.dir, dlg.name)
                /\ items' \in populate_skill_dropdown(fs')
                /\ index' = 0
                /\ ui' = AfterPopulate(ui)
                /\ dlg' = NoDialog
                /\ fields' = BlankFields
                /\ preview' = <<>>
                /\ UNCHANGED <<ini, cfg>>
    /\ Budget
    /\ ops' <= MaxOps

----------------------------------------------------------------------------
(* DeleteSkillDialog *)

\* shutil.rmtree(path)
RmTree(F, d, n) == [F EXCEPT ![d][n] = NoEntry]

\* DeleteSkillDialog.confirm_delete; after a success placeholder_popup
\* rebuilds the dropdown
confirm_delete ==
    /\ dlg.kind = "delete"
    /\ IF ShutilImported /\ IsDir(fs, dlg.dir, dlg.name)
       THEN /\ fs' = RmTree(fs, dlg.dir, dlg.name)
            /\ last' = Result("confirm_delete", "success", <<>>, TRUE,
                              BlankFields, dlg.dir, dlg.name)
            /\ items' \in populate_skill_dropdown(fs')
            /\ index' = 0
            /\ ui' = AfterPopulate(ui)
            /\ dlg' = NoDialog
       ELSE /\ last' = Result("confirm_delete", "exception", <<>>, FALSE,
                              BlankFields, dlg.dir, dlg.name)
            /\ UNCHANGED <<fs, items, index, ui, dlg>>
    /\ Budget
    /\ ops' <= MaxOps
    /\ UNCHANGED <<ini, cfg, fields, preview>>

\* Cancel in ModifySkillDialog or DeleteSkillDialog: placeholder_popup does
\* nothing after a rejected dialog
CancelDialog ==
    /\ dlg.kind \in {"modify", "delete"}
    /\ dlg' = NoDialog
    /\ fields' = BlankFields
    /\ preview' = <<>>
    /\ last' = NoResult
    /\ UNCHANGED <<fs, ini, cfg, items, index, ui, ops>>

----------------------------------------------------------------------------
(* ConfigDialog *)

\* ConfigDialog.save_config: INI_CONFIG is updated in memory, then the INI
\* file is written, then the JSON file; an open() that fails ends the
\* handler in the "File Error" modal with the earlier steps already done
save_config ==
    /\ dlg.kind = "config"
    /\ LET config == FormConfig(cfg.widgets)
           done(outcome, errs, accepted) ==
               last' = Result("save_config", outcome, errs, accepted,
                              BlankFields, "", <<>>)
       IN  IF config.default_skill_output_path = <<>>
           THEN /\ done("validation",
                        <<EmptyError("default_skill_output_path")>>, FALSE)
                /\ UNCHANGED <<ini, cfg, dlg>>
           ELSE IF "ini" \in cfg.ro
           THEN /\ ini' = IniValues(config)
                /\ done("exception", <<>>, FALSE)
                /\ UNCHANGED <<cfg, dlg>>
           ELSE IF "json" \in cfg.ro
           THEN /\ ini' = IniValues(config)
                /\ cfg' = [cfg EXCEPT !.ini = ini']
                /\ done("exception", <<>>, FALSE)
                /\ UNCHANGED dlg
           ELSE /\ ini' = IniValues(config)
                /\ cfg' = log_standard(
                             [cfg EXCEPT
                                 !.ini = ini',
                                 !.json = ConfigFile(Dumps(ConfigData(config))),
                                 !.widgets = NoWidgets],
                             "Config saved", DumpsCompact(ConfigData(config)))
                /\ done("success", <<>>, TRUE)
                /\ dlg' = NoDialog
    /\ UNCHANGED <<fs, items, index, ui, fields, preview, ops>>

----------------------------------------------------------------------------

Next ==
    \/ OpenAddDialog
    \/ OpenModifyDialog
    \/ OpenDeleteDialog
    \/ on_skill_selected
    \/ continue_load
    \/ CancelLoad
    \/ create_skill
    \/ add_preview_skill
    \/ EditFields
    \/ eventFilter
    \/ clear_form
    \/ EditPreview
    \/ CancelAdd
    \/ modify_preview_skill
    \/ update_skill
    \/ confirm_delete
    \/ CancelDialog

Spec == Init /\ [][Next]_vars

----------------------------------------------------------------------------
(* create_skill over a product of form contents *)

\* what one field of AddSkillDialog can hold when Create Skill is pressed:
\* nothing, blanks, the default padded with blanks, and for the two
\* entrypoint fields the texts of FieldEdits
FormValues(key) ==
    {<<>>, <<WS>>, <<WS>> \o REVERSE_TEXT_SKILL_DEFAULTS[key] \o <<WS>>}
    \cup {ed.val : ed \in {e \in FieldEdits :
                             /\ e.key = key
                             /\ key \in {"entrypoint_file",
                                         "entrypoint_params"}}}

\* AddSkillDialog is open with unlocked fields over a skills folder that
\* holds at most the stored skill "reverse-text", and the user has typed a
\* form
InitValidate ==
    /\ \E entry \in InitEntries(T("reverse-text")) :
          fs = [d \in Dirs |->
                  [n \in Names |->
                      IF d = "root" /\ n = T("reverse-text") THEN entry
                      ELSE NoEntry]]
    /\ \E allow \in BOOLEAN :
          LET config == [APP_CONFIG_DEFAULTS EXCEPT
                            !.lock_fields_by_default = FALSE,
                            !.allow_skill_overwrite = allow]
          IN  /\ ini = IniValues(config)
              /\ cfg = StartConfig(config)
    /\ items \in populate_skill_dropdown(fs)
    /\ index = 0
    /\ ui = [add |-> TRUE, modify |-> FALSE, delete |-> FALSE, label |-> FALSE]
    /\ dlg = [NoDialog EXCEPT !.kind = "add",
                              !.allow = GetBoolean(ini.allow_overwrite)]
    /\ fields \in [name : FormValues("name"),
                   hubId : FormValues("hubId"),
                   description : FormValues("description"),
                   entrypoint_file : FormValues("entrypoint_file"),
                   entrypoint_params : FormValues("entrypoint_params"),
                   output_description : FormValues("output_description"),
                   version : FormValues("version"),
                   schema : FormValues("schema")]
    /\ preview = <<>>
    /\ last = NoResult
    /\ ops = 0

NextValidate == create_skill

SpecValidate == InitValidate /\ [][NextValidate]_vars

----------------------------------------------------------------------------
(* update_skill over previewed documents and target folders *)

\* a plugin.json that an earlier update_skill wrote
UpdatedPluginText == Dumps(PreviewData(REVERSE_TEXT_SKILL_DEFAULTS))

\* a plugin.json written by another tool: the skill is switched off and the
\* document carries a top-level key the editor does not know
ImportedPluginText ==
    Dumps(JObj(PutKey(PutKey(PreviewData(REVERSE_TEXT_SKILL_DEFAULTS).m,
                             T("active"), JFalse),
                      T("author"), JStr(T("someone")))))

\* a skill folder copied in from elsewhere, with its handler
ImportedSkill ==
    Folder(Files2(PLUGIN_JSON, ImportedPluginText,
                  HANDLER_JS, StoredHandlerCode))

\* what <cwd>/<n> can be when Update Skill is pressed: nothing, a plain
\* file, an empty folder, an imported skill, a folder with a plugin.json
\* written by create or by update, and the same with the file read-only
UpdateEntries(n) ==
    { NoEntry,
      PlainFile,
      Folder(NoFiles),
      ImportedSkill }
    \cup
    { [Folder(Files1(PLUGIN_JSON, text)) EXCEPT !.ro = ro] :
        text \in {Dumps(StoredPluginData(n)), UpdatedPluginText},
        ro \in {{}, {PLUGIN_JSON}} }

\* the texts the preview area can hold after Preview: the document of
\* preview_skill as it is, or after the user has edited it
PreviewDocuments(F) ==
    LET doc == PreviewData(F) IN
    {Dumps(doc)} \cup PreviewEdits(Dumps(doc)) \cup
    { Dumps(JObj(PutKey(doc.m, T("name"), JNone))),
      Dumps(JObj(PutKey(doc.m, T("entrypoint"), JStr(HANDLER_JS)))),
      Dumps(JObj(PutKey(doc.m, T("output_description"), JNone))),
      Dumps(KeyArrayData),
      InvalidJsonText }

\* ModifySkillDialog is open on the selected skill n, Preview has been
\* pressed and the preview area possibly edited
InitUpdate ==
    \E n \in Names, lock \in BOOLEAN :
       /\ \E entry \in UpdateEntries(n) :
             fs = [d \in Dirs |->
                     [m \in Names |->
                         IF m # n THEN NoEntry
                         ELSE IF d = "root" THEN StoredSkill(n) ELSE entry]]
       /\ LET config == [APP_CONFIG_DEFAULTS EXCEPT
                            !.lock_fields_by_default = lock]
          IN  /\ ini = IniValues(config)
              /\ cfg = StartConfig(config)
       /\ items \in populate_skill_dropdown(fs)
       /\ index = 1
       /\ ui = [add |-> FALSE, modify |-> TRUE, delete |-> TRUE, label |-> TRUE]
       /\ dlg = [NoDialog EXCEPT !.kind = "modify", !.dir = "cwd", !.name = n,
                                 !.update_btn = TRUE]
       /\ fields \in (IF lock THEN {ModifyInitFields(fs, "cwd", n)}
                      ELSE FormInputs(ModifyInitFields(fs, "cwd", n)))
       /\ preview \in PreviewDocuments(fields)
       /\ last = NoResult
       /\ ops = 0

NextUpdate == update_skill

SpecUpdate == InitUpdate /\ [][NextUpdate]_vars

----------------------------------------------------------------------------
(* save_config over the dialog's widgets and the two configuration files *)

\* what the path box can hold when Save is pressed
ConfigPaths ==
    {<<>>, <<WS>>, SKILLS_PATH, <<WS>> \o T("D:/skills") \o <<WS>>}

\* ConfigDialog is open over an earlier configuration; the JSON file may not
\* exist yet, either file may be read-only, and the user has set the widgets
InitConfig ==
    /\ fs = [d \in Dirs |-> [n \in Names |-> NoEntry]]
    /\ \E lock, allow \in BOOLEAN :
          LET config == [APP_CONFIG_DEFAULTS EXCEPT
                            !.lock_fields_by_default = lock,
                            !.allow_skill_overwrite = allow]
          IN  /\ ini = IniValues(config)
              /\ cfg \in [ini : {ini},
                          json : {NoConfigFile,
                                  ConfigFile(Dumps(ConfigData(config)))},
                          ro : SUBSET {"ini", "json"},
                          log : {[standard |-> NoLog, verbose |-> NoLog]},
                          widgets : [log_level : LOG_LEVELS,
                                     path : ConfigPaths,
                                     lock : BOOLEAN,
                                     tooltips : BOOLEAN,
                                     allow : BOOLEAN]]
    /\ items \in populate_skill_dropdown(fs)
    /\ index = 0
    /\ ui = [add |-> TRUE, modify |-> FALSE, delete |-> FALSE, label |-> FALSE]
    /\ dlg = [NoDialog EXCEPT !.kind = "config"]
    /\ fields = BlankFields
    /\ preview = <<>>
    /\ last = NoResult
    /\ ops = 0

\* Save in ConfigDialog; once it has closed, Add New opens AddSkillDialog
NextConfig ==
    \/ save_config
    \/ OpenAddDialog

SpecConfig == InitConfig /\ [][NextConfig]_vars

----------------------------------------------------------------------------
(* The two log files *)

\* at most MaxLog entries are written to a log file
MaxLog == 2

\* entries the handlers write with log_standard and with log_verbose
StandardEntries ==
    { LogEntry("Created skill", T("Zip")),
      LogEntry("Failed to load config", <<>>) }
VerboseEntries ==
    { LogEntry("Validation failed", <<>>),
      LogEntry("Skill creation completed", T("Zip")) }

\* some handler calls log_standard
WriteStandardLog ==
    /\ Len(cfg.log.standard.lines) < MaxLog
    /\ \E entry \in StandardEntries :
          cfg' = log_standard(cfg, entry.kind, entry.detail)
    /\ last' = NoResult
    /\ UNCHANGED <<fs, ini, items, index, ui, dlg, fields, preview, ops>>

\* some handler calls log_verbose
WriteVerboseLog ==
    /\ Len(cfg.log.verbose.lines) < MaxLog
    /\ \E entry \in VerboseEntries :
          cfg' = log_verbose(cfg, entry.kind, entry.detail)
    /\ last' = NoResult
    /\ UNCHANGED <<fs, ini, items, index, ui, dlg, fields, preview, ops>>

\* SkillEditor.clear_log and ConfigDialog.clear_log (the same code)
clear_log ==
    /\ dlg.kind \in {"none", "config"}
    /\ cfg' = [cfg EXCEPT !.log.standard = TruncateLog(@)]
    /\ last' = Result("clear_log", "success", <<>>, FALSE, BlankFields, "",
                      <<>>)
    /\ UNCHANGED <<fs, ini, items, index, ui, dlg, fields, preview, ops>>

\* SkillEditor.backup_log and ConfigDialog.backup_log: the standard log is
\* copied to the Downloads folder
backup_log ==
    /\ dlg.kind \in {"none", "config"}
    /\ last' = Result("backup_log",
                      IF cfg.log.standard.exists THEN "success"
                      ELSE "not_found",
                      <<>>, FALSE, BlankFields, "", <<>>)
    /\ UNCHANGED <<fs, ini, cfg, items, index, ui, dlg, fields, preview, ops>>

\* SkillEditor.review_log and ConfigDialog.review_log: the log file of the
\* configured level is opened in the system's viewer
review_log ==
    /\ dlg.kind \in {"none", "config"}
    /\ LET level == GetOr(load_app_config(cfg), T("log_level"),
                          JStr(T("Standard")))
           file == IF level = JStr(T("Standard")) THEN cfg.log.standard
                   ELSE cfg.log.verbose
       IN  last' = Result("review_log",
                          IF file.exists THEN "success" ELSE "not_found",
                          <<>>, FALSE, BlankFields, "", <<>>)
    /\ UNCHANGED <<fs, ini, cfg, items, index, ui, dlg, fields, preview, ops>>

\* the main window or ConfigDialog over log files of an earlier session
InitLog ==
    /\ fs = [d \in Dirs |-> [n \in Names |-> NoEntry]]
    /\ \E level \in LOG_LEVELS :
          LET config == [APP_CONFIG_DEFAULTS EXCEPT !.log_level = level]
              files == {NoLog, LogFile(<<>>)}
          IN  /\ ini = IniValues(config)
              /\ \E standard \in files
                       \cup {LogFile(<<e>>) : e \in StandardEntries},
                    verbose \in files
                       \cup {LogFile(<<e>>) : e \in VerboseEntries} :
                    cfg = [StartConfig(config) EXCEPT
                              !.log = [standard |-> standard,
                                       verbose |-> verbose]]
    /\ items \in populate_skill_dropdown(fs)
    /\ index = 0
    /\ ui = [add |-> TRUE, modify |-> FALSE, delete |-> FALSE, label |-> FALSE]
    /\ dlg \in {NoDialog, [NoDialog EXCEPT !.kind = "config"]}
    /\ fields = BlankFields
    /\ preview = <<>>
    /\ last = NoResult
    /\ ops = 0

NextLog ==
    \/ WriteStandardLog
    \/ WriteVerboseLog
    \/ clear_log
    \/ backup_log
    \/ review_log

SpecLog == InitLog /\ [][NextLog]_vars

----------------------------------------------------------------------------
(* Repeated attempts of create_skill in one AddSkillDialog *)

\* the forms the user moves between while the dialog stays open
RetryForms == FormInputs(REVERSE_TEXT_SKILL_DEFAULTS) \cup {BlankFields}

\* the user retypes fields between two presses of Create; no handler runs,
\* so the outcome of the last attempt stays the last outcome
RetypeFields ==
    /\ dlg.kind = "add"
    /\ \E F \in RetryForms :
          /\ F # fields
          /\ fields' = F
    /\ UNCHANGED <<fs, ini, cfg, items, index, ui, dlg, preview, last, ops>>

\* AddSkillDialog is open with unlocked fields over a skills folder that
\* holds at most the stored skill "reverse-text" and an empty folder "Zip"
InitRetry ==
    /\ \E entry \in InitEntries(T("reverse-text")),
          other \in {NoEntry, Folder(NoFiles)} :
          fs = [d \in Dirs |->
                  [n \in Names |->
                      IF d = "root"
                      THEN IF n = T("reverse-text") THEN entry ELSE other
                      ELSE NoEntry]]
    /\ \E allow \in BOOLEAN :
          LET config == [APP_CONFIG_DEFAULTS EXCEPT
                            !.lock_fields_by_default = FALSE,
                            !.allow_skill_overwrite = allow]
          IN  /\ ini = IniValues(config)
              /\ cfg = StartConfig(config)
    /\ items \in populate_skill_dropdown(fs)
    /\ index = 0
    /\ ui = [add |-> TRUE, modify |-> FALSE, delete |-> FALSE, label |-> FALSE]
    /\ dlg = [NoDialog EXCEPT !.kind = "add",
                              !.allow = GetBoolean(ini.allow_overwrite)]
    /\ fields \in RetryForms
    /\ preview = <<>>
    /\ last = NoResult
    /\ ops = 0

NextRetry ==
    \/ create_skill
    \/ RetypeFields

SpecRetry == InitRetry /\ [][NextRetry]_vars

----------------------------------------------------------------------------
(* populate_skill_dropdown over folders whose names differ only in case *)

\* the names of a skills folder on a case-sensitive filesystem
ListingNames == Names \cup {T("zip")}

\* what the skills folder can hold under one name
ListingEntries(n) == {NoEntry, PlainFile, Folder(NoFiles), StoredSkill(n)}

\* the main window has started over some skills folder; the dropdown holds
\* the result of the first populate_skill_dropdown
InitListing ==
    /\ \E a \in ListingEntries(T("reverse-text")),
          b \in ListingEntries(T("Zip")),
          c \in ListingEntries(T("zip")) :
          fs = [d \in Dirs |->
                  [n \in ListingNames |->
                      IF d # "root" THEN NoEntry
                      ELSE IF n = T("reverse-text") THEN a
                      ELSE IF n = T("Zip") THEN b ELSE c]]
    /\ ini = IniValues(APP_CONFIG_DEFAULTS)
    /\ cfg = StartConfig(APP_CONFIG_DEFAULTS)
    /\ items \in populate_skill_dropdown(fs)
    /\ index = 0
    /\ ui = [add |-> TRUE, modify |-> FALSE, delete |-> FALSE, label |-> FALSE]
    /\ dlg = NoDialog
    /\ fields = BlankFields
    /\ preview = <<>>
    /\ last = NoResult
    /\ ops = 0

\* Add New is opened and cancelled: placeholder_popup runs
\* populate_skill_dropdown again over the same folder
NextListing ==
    \/ OpenAddDialog
    \/ CancelAdd

SpecListing == InitListing /\ [][NextListing]_vars

----------------------------------------------------------------------------
(* The early revision: ConfigDialog.save_config *)

\* the string literals of save_config are broken across lines, which the
\* compiler rejects (SyntaxError: unterminated string literal), so no
\* statement of the module runs
EarlySourceCompiles == FALSE

\* the keys of the early REQUIRED_FIELDS, in the order of the dict
EARLY_REQUIRED_FIELDS ==
    <<"name", "hubId", "description", "entrypoint_file", "entrypoint_params",
      "output_description", "version", "schema">>

\* what the user means to type into one field of the early ConfigDialog
EarlyValues == {<<>>, <<WS>>, <<WS>> \o T("value") \o <<WS>>}

\* config[key] = field.text().strip()
EarlyConfig(F) ==
    JObj([i \in 1..Len(EARLY_REQUIRED_FIELDS) |->
            Member(T(EARLY_REQUIRED_FIELDS[i]),
                   JStr(Strip(F[EARLY_REQUIRED_FIELDS[i]])))])

\* "The field '<key>' cannot be empty.", one per empty field
EarlyErrors(F) ==
    LET bad == SelectSeq(EARLY_REQUIRED_FIELDS,
                         LAMBDA key : Strip(F[key]) = <<>>)
    IN  [i \in 1..Len(bad) |-> EmptyError(bad[i])]

\* the early revision is started, Configuration is opened, the fields are
\* unlocked and filled with the values of fields, and Save is pressed
early_save_config ==
    /\ last.op = "none"
    /\ IF ~EarlySourceCompiles
       THEN /\ last' = Result("save_config", "syntax_error", <<>>, FALSE,
                              BlankFields, "", <<>>)
            /\ UNCHANGED cfg
       ELSE IF EarlyErrors(fields) # <<>>
       THEN /\ last' = Result("save_config", "validation",
                              EarlyErrors(fields), FALSE, StripFields(fields),
                              "", <<>>)
            /\ UNCHANGED cfg
       ELSE IF "log" \in cfg.ro
       THEN /\ last' = Result("save_config", "exception", <<>>, FALSE,
                              StripFields(fields), "", <<>>)
            /\ UNCHANGED cfg
       ELSE /\ last' = Result("save_config", "success", <<>>, TRUE,
                              StripFields(fields), "", <<>>)
            /\ cfg' = log_standard(cfg, "Config saved",
                                   DumpsCompact(EarlyConfig(fields)))
    /\ UNCHANGED <<fs, ini, items, index, ui, dlg, fields, preview, ops>>

\* before the early revision is started: an earlier standard log may exist,
\* and fields holds what the user is about to type
InitEarly ==
    /\ fs = [d \in Dirs |-> [n \in Names |-> NoEntry]]
    /\ ini = IniValues(APP_CONFIG_DEFAULTS)
    /\ \E standard \in {NoLog, LogFile(<<>>)} :
          cfg = [StartConfig(APP_CONFIG_DEFAULTS) EXCEPT
                    !.log.standard = standard]
    /\ items = <<PLACEHOLDER>>
    /\ index = 0
    /\ ui = [add |-> TRUE, modify |-> FALSE, delete |-> FALSE, label |-> FALSE]
    /\ dlg = NoDialog
    /\ fields \in [name : EarlyValues,
                   hubId : EarlyValues,
                   description : EarlyValues,
                   entrypoint_file : EarlyValues,
                   entrypoint_params : EarlyValues,
                   output_description : EarlyValues,
                   version : EarlyValues,
                   schema : EarlyValues]
    /\ preview = <<>>
    /\ last = NoResult
    /\ ops = 0

NextEarly == early_save_config

SpecEarly == InitEarly /\ [][NextEarly]_vars

----------------------------------------------------------------------------
(* Properties *)

\* the folder create_skill would write to, when the hubId field names one
TargetExists ==
    /\ StripFields(fields).hubId \in Names
    /\ Exists(fs, "root", StripFields(fields).hubId)

\* C1: when <skillsRoot>/<hubId> already exists and overwrite is disabled,
\* create_skill fails with an error (the validation errors, or "already
\* exists"), the whole filesystem stays exactly as it was, and the dialog is
\* not accepted: it stays open.
C1_ExistingFolderRefused ==
    [][(create_skill /\ TargetExists /\ ~dlg.allow)
        => /\ fs' = fs
           /\ last'.op = "create_skill"
           /\ last'.outcome \in {"validation", "exists"}
           /\ last'.outcome = "validation" <=> last'.errors # <<>>
           /\ ~last'.accepted
           /\ dlg' = dlg]_vars

\* create_skill has just refused to overwrite a stored skill
C1_Witness ==
    /\ last.op = "create_skill"
    /\ last.outcome = "exists"
    /\ dlg.kind = "add"
    /\ ~dlg.allow
    /\ fs["root"][last.name] = StoredSkill(last.name)

\* C2: after confirm_delete the folder <skillsRoot>/<skill name> no longer
\* exists, the dialog is accepted (and so closed), and the rebuilt listing
\* does not contain the skill's name.
C2_DeleteRemovesFolder ==
    [][confirm_delete
        => /\ ~Exists(fs', "root", dlg.name)
           /\ last'.accepted
           /\ dlg'.kind = "none"
           /\ \A i \in DOMAIN items' : items'[i] # dlg.name]_vars

\* C3: a create_skill submitted with an empty required field or with
\* entrypoint_params that is not valid JSON fails as a whole: nothing on the
\* filesystem changes and the dialog is not accepted.
C3_NoPartialCreate ==
    [][(/\ create_skill
        /\ \/ ValidationErrors(fields) # <<>>
           \/ ~Loads(StripFields(fields).entrypoint_params).ok)
        => /\ fs' = fs
           /\ ~last'.accepted
           /\ dlg' = dlg]_vars

\* C4: for every form in which exactly one of the eight fields is empty or
\* blank and the other seven are not, create_skill's validation reports
\* exactly one error, and that error names the empty field.
C4_OneEmptyFieldOneError ==
    [][create_skill
        => \A key \in FieldKeys :
              (/\ Strip(fields[key]) = <<>>
               /\ \A other \in FieldKeys \ {key} : Strip(fields[other]) # <<>>)
              => /\ last'.outcome = "validation"
                 /\ last'.errors = <<EmptyError(key)>>]_vars

\* validation has just reported the one blank field of a form, "schema"
C4_Witness ==
    /\ last.op = "create_skill"
    /\ last.outcome = "validation"
    /\ fields["schema"] = <<WS>>
    /\ \A other \in FieldKeys \ {"schema"} : Strip(fields[other]) # <<>>
    /\ Len(last.errors) = 1
    /\ last.errors[1].field = "schema"

\* C5: for every form whose eight fields are all non-empty and whose
\* entrypoint_params is valid JSON, create_skill reports no validation
\* error, and the entrypoint.params of the plugin.json it writes is the
\* parsed form of the field, which json.dumps and json.loads give back
\* unchanged.
C5_ValidFormRoundTrips ==
    [][(/\ create_skill
        /\ \A key \in FieldKeys : Strip(fields[key]) # <<>>
        /\ Loads(StripFields(fields).entrypoint_params).ok)
        => LET data == StripFields(fields)
               input == Loads(data.entrypoint_params).v
               doc == Loads(ReadFile(fs', "root", data.hubId, PLUGIN_JSON))
           IN  /\ last'.errors = <<>>
               /\ last'.outcome \in {"success", "exists", "exception"}
               /\ Loads(Dumps(input)) = [ok |-> TRUE, v |-> input]
               /\ last'.outcome = "success"
                  => /\ doc.ok
                     /\ GetKey(GetKey(doc.v, T("entrypoint")), T("params"))
                            = input]_vars

\* a skill has just been created from a form whose entrypoint_params is the
\* JSON string "text" typed after a blank
C5_Witness ==
    /\ last.op = "create_skill"
    /\ last.outcome = "success"
    /\ last.data.entrypoint_params = <<StrTok(T("text"))>>
    /\ IsFile(fs, "root", last.name, PLUGIN_JSON)
    /\ GetKey(GetKey(Loads(ReadFile(fs, "root", last.name, PLUGIN_JSON)).v,
                     T("entrypoint")), T("params")) = JStr(T("text"))

\* C6: a successful create_skill for a hubId h that the skills folder has no
\* entry for leaves a folder <skillsRoot>/h that contains plugin.json and a
\* file named by entrypoint_file, whose content is not empty.
C6_CreateProducesSkillFolder ==
    [][(/\ create_skill
        /\ last'.outcome = "success"
        /\ ~Exists(fs, "root", StripFields(fields).hubId))
        => LET data == StripFields(fields) IN
           /\ IsDir(fs', "root", data.hubId)
           /\ IsFile(fs', "root", data.hubId, PLUGIN_JSON)
           /\ IsFile(fs', "root", data.hubId, data.entrypoint_file)
           /\ Strip(ReadFile(fs', "root", data.hubId, data.entrypoint_file))
                  # <<>>]_vars

\* a skill with the handler file main.js has just been created where
\* overwriting is disabled, so in a place that was free, from a blank
\* preview area
C6_Witness ==
    /\ last.op = "create_skill"
    /\ last.outcome = "success"
    /\ ~GetBoolean(ini.allow_overwrite)
    /\ last.data.entrypoint_file = T("main.js")
    /\ DOMAIN fs["root"][last.name].files = {PLUGIN_JSON, T("main.js")}
    /\ ReadFile(fs, "root", last.name, T("main.js")) = DefaultHandlerCode

\* C7: the listing contains a name exactly when <skillsRoot>/<name> is a
\* folder that holds a handler.js and a plugin.json that is valid JSON with
\* the top-level keys name, hubId, description, version and schema; every
\* other entry is skipped.
C7_ListingIffWellFormed ==
    \A n \in Names :
        (\E i \in 2..Len(items) : items[i] = n)
        <=> /\ IsDir(fs, "root", n)
            /\ IsFile(fs, "root", n, PLUGIN_JSON)
            /\ IsFile(fs, "root", n, HANDLER_JS)
            /\ LET r == Loads(ReadFile(fs, "root", n, PLUGIN_JSON)) IN
               /\ r.ok
               /\ r.v.t = "obj"
               /\ \A key \in LISTING_KEYS : HasKey(r.v, key)

\* C8: the listing rebuilt after a successful create_skill contains the
\* skill just created, whatever entrypoint_file was submitted.
C8_CreatedSkillIsListed ==
    [][(create_skill /\ last'.outcome = "success")
        => \E i \in 2..Len(items') : items'[i] = StripFields(fields).hubId]_vars

\* C9: ModifySkillDialog shows the fields of
\* <skillsRoot>/<selected name>/plugin.json, and a successful update_skill
\* rewrites that file and changes nothing else: no other file of that
\* folder, no other folder of the skills folder, nothing outside it.
C9_ModifyActsOnSelectedSkill ==
    [][/\ (OpenModifyDialog /\ dlg'.kind = "modify")
          => fields' = ModifyInitFields(fs, "root", currentText)
       /\ (update_skill /\ last'.outcome = "success")
          => /\ fs'["cwd"] = fs["cwd"]
             /\ IsFile(fs, "root", dlg.name, PLUGIN_JSON)
             /\ fs' = WriteFile(fs, "root", dlg.name, PLUGIN_JSON,
                                ReadFile(fs', "root", dlg.name, PLUGIN_JSON))
      ]_vars

\* C10: every plugin.json that a create or an update writes carries a hubId
\* equal to the name of the folder that contains it.
C10_HubIdIsFolderName ==
    [][\A d \in Dirs, n \in Names :
          (/\ IsFile(fs', d, n, PLUGIN_JSON)
           /\ \/ ~IsFile(fs, d, n, PLUGIN_JSON)
              \/ ReadFile(fs', d, n, PLUGIN_JSON)
                     # ReadFile(fs, d, n, PLUGIN_JSON))
          => LET r == Loads(ReadFile(fs', d, n, PLUGIN_JSON)) IN
             /\ r.ok
             /\ r.v.t = "obj"
             /\ GetOr(r.v, T("hubId"), JNone) = JStr(n)]_vars

\* the plugin.json a successful create or update has just written
WrittenPlugin == Loads(ReadFile(fs', last'.dir, last'.name, PLUGIN_JSON)).v

\* a create_skill or update_skill step that reported success
Persisted == (create_skill \/ update_skill) /\ last'.outcome = "success"

\* C11: every plugin.json a create or an update writes has an entrypoint
\* whose params is a JSON object (the parsed form of the entrypoint_params
\* field), never the field's raw text; a form whose entrypoint_params does
\* not parse is never persisted.
C11_ParamsStructured ==
    [][Persisted
       => /\ GetKey(GetKey(WrittenPlugin, T("entrypoint")), T("params")).t
                = "obj"
          /\ update_skill => Loads(StripFields(fields).entrypoint_params).ok
      ]_vars

\* a JSON value that is present and not empty: not null, not a blank string,
\* not {} and not []
NonEmptyValue(val) ==
    CASE val.t = "str" -> Strip(val.x) # <<>>
      [] val.t = "obj" -> val.m # <<>>
      [] val.t = "arr" -> val.e # <<>>
      [] val.t \in {"true", "false"} -> TRUE
      [] OTHER -> FALSE

\* C12: no plugin.json is written by create or update unless all eight
\* fields of the submitted record (the form for create, the previewed
\* document for update) are non-empty.
C12_NoEmptyFieldPersisted ==
    [][/\ (create_skill /\ last'.outcome = "success")
          => \A key \in FieldKeys : Strip(fields[key]) # <<>>
       /\ (update_skill /\ last'.outcome = "success")
          => LET data == Loads(preview).v
                 ep == GetOr(data, T("entrypoint"), JNone)
             IN  /\ \A key \in FieldKeys \ {"entrypoint_file",
                                            "entrypoint_params"} :
                       NonEmptyValue(GetOr(data, T(key), JNone))
                 /\ ep.t = "obj"
                 /\ NonEmptyValue(GetOr(ep, T("file"), JNone))
                 /\ NonEmptyValue(GetOr(ep, T("params"), JNone))
      ]_vars

\* C13: every plugin.json a create or an update persists has schema equal to
\* the literal "skill-1.0.0".
C13_SchemaIsLiteral ==
    [][Persisted
       => GetOr(WrittenPlugin, T("schema"), JNone) = JStr(T("skill-1.0.0"))
      ]_vars

\* the keys of a JSON object
KeySet(obj) == {obj.m[i].k : i \in 1..Len(obj.m)}

\* the top-level keys of the plugin.json create_skill builds
PLUGIN_KEYS ==
    {T("active"), T("hubId"), T("name"), T("schema"), T("version"),
     T("description"), T("entrypoint")}

\* C14: the plugin.json written by create and the one written by update have
\* the same shape: exactly the keys active, hubId, name, schema, version,
\* description and entrypoint, the last with exactly file and params.
C14_SameShape ==
    [][Persisted
       => /\ KeySet(WrittenPlugin) = PLUGIN_KEYS
          /\ KeySet(GetKey(WrittenPlugin, T("entrypoint")))
                = {T("file"), T("params")}
      ]_vars

\* two texts that parse to the same JSON value
JsonEquivalent(a, b) ==
    /\ Loads(a).ok
    /\ Loads(b).ok
    /\ Loads(a).v = Loads(b).v

\* C15: the fields a dialog rebuilds from a plugin.json that create_skill
\* wrote equal the eight submitted (stripped) values, entrypoint_params up to
\* JSON equivalence.
C15_CreateRoundTrips ==
    [][(create_skill /\ last'.outcome = "success")
       => LET F == ModifyInitFields(fs', "root", last'.name) IN
          /\ ~ModifyInitRaises(fs', "root", last'.name)
          /\ ~LoadInitRaises(fs', "root", last'.name)
          /\ \A key \in FieldKeys \ {"entrypoint_params"} :
                F[key] = last'.data[key]
          /\ JsonEquivalent(F.entrypoint_params, last'.data.entrypoint_params)
      ]_vars

\* the plugin.json update_skill would write to exists and is read-only
TargetReadOnly ==
    /\ IsFile(fs, dlg.dir, dlg.name, PLUGIN_JSON)
    /\ PLUGIN_JSON \in fs[dlg.dir][dlg.name].ro

\* the previewed text parses to a dict that update_skill's validation
\* rejects
ValidationFails ==
    /\ Loads(preview).ok
    /\ ~UpdateRaises(Loads(preview).v)
    /\ UpdateErrors(Loads(preview).v) # <<>>

\* C16: when plugin.json exists and is not writable, update_skill fails with
\* an error, leaves plugin.json (and everything else on disk) unchanged and
\* does not accept the dialog; the same when the validation fails.
C16_UpdateFailureKeepsFile ==
    [][(update_skill /\ (TargetReadOnly \/ ValidationFails))
       => /\ last'.outcome # "success"
          /\ ValidationFails => last'.outcome = "validation"
          /\ (TargetReadOnly /\ Loads(preview).ok
                /\ ~UpdateRaises(Loads(preview).v) /\ ~ValidationFails)
             => last'.outcome = "not_writable"
          /\ ~last'.accepted
          /\ fs' = fs
          /\ dlg' = dlg
      ]_vars

\* update_skill has refused to write a read-only plugin.json
C16_Witness ==
    /\ last.op = "update_skill"
    /\ last.outcome = "not_writable"
    /\ TargetReadOnly
    /\ dlg.kind = "modify"

\* the handler scripts the user can supply in the preview area
UserScripts == {Strip(text) : text \in PreviewTexts} \ {<<>>}

\* C17: the handler file a successful create writes holds the handler script
\* the user supplied or, without one, the default boilerplate; pressing
\* Preview before Create does not change which script is written.
C17_HandlerIsScript ==
    [][(create_skill /\ last'.outcome = "success")
       => ReadFile(fs', "root", last'.name, last'.data.entrypoint_file)
             \in UserScripts \cup {DefaultHandlerCode}
      ]_vars

\* the outcomes a handler reports with QMessageBox.critical before it
\* returns; "unhandled" is an exception that leaves the handler
ModalOutcomes ==
    {"validation", "exists", "invalid_json", "invalid_preview", "no_folder",
     "not_writable", "exception"}

\* C19: every failing run of create_skill, update_skill, confirm_delete or
\* preview_skill ends with an error modal and the dialog still open (not
\* accepted); no exception leaves the handler unreported.
C19_FailuresReported ==
    [][(/\ \/ create_skill
           \/ update_skill
           \/ confirm_delete
           \/ add_preview_skill
           \/ modify_preview_skill
        /\ last'.outcome # "success")
       => /\ last'.outcome \in ModalOutcomes
          /\ ~last'.accepted
          /\ dlg'.kind = dlg.kind
      ]_vars

\* C18: the dropdown holds the single placeholder "Load Existing Skill" at
\* index 0 and after it the skill names in ascending order of their
\* lower-cased text.
C18_ListingSorted ==
    /\ Len(items) >= 1
    /\ items[1] = PLACEHOLDER
    /\ \A i \in 2..Len(items) : items[i] # PLACEHOLDER
    /\ \A i, j \in 2..Len(items) :
          i < j => KeyRank(items[i]) < KeyRank(items[j])

\* the dropdown rebuilt after a create lists both skills, "reverse-text"
\* before "Zip"
C18_Witness ==
    /\ last.op = "create_skill"
    /\ last.outcome = "success"
    /\ Len(items) = 3
    /\ items[2] = T("reverse-text")
    /\ items[3] = T("Zip")

\* the five values of the JSON config file against those of the INI file
FilesAgree(C) ==
    LET json == load_app_config(C)
        file == ReadIni(C.ini)
    IN  /\ C.json.exists
        /\ json.t = "obj"
        /\ GetOr(json, T("log_level"), JNone) = JStr(file.log_level)
        /\ GetOr(json, T("default_skill_output_path"), JNone)
              = JStr(file.output_path)
        /\ GetOr(json, T("lock_fields_by_default"), JNone)
              = JBool(GetBoolean(file.lock_fields))
        /\ GetOr(json, T("show_field_tooltips"), JNone)
              = JBool(GetBoolean(file.show_tooltips))
        /\ GetOr(json, T("allow_skill_overwrite"), JNone)
              = JBool(GetBoolean(file.allow_overwrite))

\* C20: after a successful save_config the JSON config file and the INI file
\* hold the same values for log_level, default_skill_output_path,
\* lock_fields_by_default, show_field_tooltips and allow_skill_overwrite, and
\* the overwrite policy an AddSkillDialog opened next reads from the INI is
\* the allow_skill_overwrite of the JSON file.
C20_ConfigFilesAgree ==
    [][/\ (save_config /\ last'.outcome = "success")
          => /\ FilesAgree(cfg')
             /\ ini' = ReadIni(cfg'.ini)
       /\ (OpenAddDialog /\ last.op = "save_config")
          => JBool(dlg'.allow)
                = GetOr(load_app_config(cfg), T("allow_skill_overwrite"),
                        JNone)
      ]_vars

\* a save has switched overwriting on and field locking off
C20_Witness ==
    /\ last.op = "save_config"
    /\ last.outcome = "success"
    /\ GetBoolean(cfg.ini.allow_overwrite)
    /\ ~GetBoolean(cfg.ini.lock_fields)
    /\ dlg.kind = "none"

\* a is an initial part of b
IsPrefix(a, b) == Len(a) <= Len(b) /\ SubSeq(b, 1, Len(a)) = a

\* C21: both log files are append-only: every step leaves the entries
\* already written to the standard log and to the verbose log in place, in
\* order, and at most adds entries after them.
C21_LogsAppendOnly ==
    [][/\ IsPrefix(cfg.log.standard.lines, cfg'.log.standard.lines)
       /\ IsPrefix(cfg.log.verbose.lines, cfg'.log.verbose.lines)
      ]_vars

\* a form field of ModifySkillDialog receives the focus (to be edited or not)
FieldFocusIn == eventFilter \/ (EditFields /\ dlg.kind = "modify")

\* C22: in ModifySkillDialog the Update button is disabled when the dialog
\* opens, only preview_skill enables it, and a focus-in on any form field
\* disables it again and clears the preview; update_skill runs only while
\* the button is enabled, i.e. after a preview with no focus-in since.
C22_UpdateNeedsPreview ==
    [][/\ (OpenModifyDialog /\ dlg'.kind = "modify") => ~dlg'.update_btn
       /\ (~dlg.update_btn /\ dlg'.update_btn) => modify_preview_skill
       /\ modify_preview_skill => dlg'.update_btn
       /\ FieldFocusIn => (~dlg'.update_btn /\ preview' = <<>>)
       /\ update_skill => dlg.update_btn
      ]_vars

\* an update has run: the button was enabled by a preview
C22_Witness ==
    /\ last.op = "update_skill"
    /\ last.outcome = "success"
    /\ dlg.kind = "none"

\* the main window is at rest: no dialog is open
AtRest == dlg.kind = "none"

\* C23: whenever the main window is at rest, Modify Skill and Delete Skill
\* are enabled only if the dropdown index is greater than 0; both are
\* disabled at start, after a cancelled load, and whenever the placeholder
\* becomes the current item (selected by the user or by a rebuilt listing).
C23_ButtonsNeedSelection ==
    /\ ~ui.modify /\ ~ui.delete
    /\ [](AtRest => ((ui.modify \/ ui.delete) => index > 0))
    /\ [][(CancelLoad \/ (index # 0 /\ index' = 0) \/ items' # items)
          => (~ui'.modify /\ ~ui'.delete)]_vars

\* a skill is loaded: both buttons enabled at rest on a real entry
C23_Witness ==
    /\ AtRest
    /\ ui.modify
    /\ ui.delete
    /\ index > 0
    /\ last.op = "continue_load"

\* C24: whenever the main window is at rest, Add New is enabled exactly
\* when no skill is loaded, i.e. exactly when Modify Skill and Delete Skill
\* are disabled.
C24_AddIffNothingLoaded ==
    AtRest => (ui.add <=> (~ui.modify /\ ~ui.delete))

\* the ways create_skill fails on a target that passed, or did not reach,
\* the overwrite check
CreateFailures == {"validation", "invalid_json", "exception"}

\* the form passes STEP 1 and its entrypoint_params parses in STEP 5
ValidForm(F) ==
    /\ ValidationErrors(F) = <<>>
    /\ Loads(StripFields(F).entrypoint_params).ok

\* the last operation was a failed create_skill for h in this dialog, which
\* has overwriting disabled, and no folder for h existed before it: a
\* failure after STEP 3 passed that check, a validation failure left the
\* disk as it is now
FailedCreateFor(h) ==
    /\ dlg.kind = "add"
    /\ ~dlg.allow
    /\ last.op = "create_skill"
    /\ last.outcome \in CreateFailures
    /\ last.name = h
    /\ last.outcome = "validation" => ~Exists(fs, "root", h)

\* C25: with overwriting disabled and no folder for hubId h beforehand, a
\* create_skill for h with valid fields that follows a failed create_skill
\* for h succeeds.
C25_RetryAfterFailureSucceeds ==
    [][(/\ create_skill
        /\ ValidForm(fields)
        /\ FailedCreateFor(StripFields(fields).hubId))
       => last'.outcome = "success"]_vars

\* an update_skill step that reported success
Updated == update_skill /\ last'.outcome = "success"

\* C26: the plugin.json a successful update_skill writes is the document
\* preview_skill builds from the form fields as they stand at the moment of
\* the update.
C26_UpdateWritesCurrentForm ==
    [][Updated => WrittenPlugin = PreviewData(fields)]_vars

\* the top-level keys of the document preview_skill builds
PREVIEW_KEYS == PLUGIN_KEYS \cup {T("output_description")}

\* the preview area holds what preview_skill built from the fields
PreviewUnedited == preview = Dumps(PreviewData(fields))

\* C27: a Preview followed by Update with the preview left unedited writes
\* the document built from the fields alone: active is true and the
\* top-level keys are exactly those the preview builds, whatever the
\* existing plugin.json held; over a plugin.json that is already that
\* document the update rewrites the identical text.
C27_PreviewUpdateRebuilds ==
    [][(Updated /\ PreviewUnedited)
       => /\ ReadFile(fs', dlg.dir, dlg.name, PLUGIN_JSON)
               = Dumps(PreviewData(fields))
          /\ GetKey(WrittenPlugin, T("active")) = JTrue
          /\ KeySet(WrittenPlugin) = PREVIEW_KEYS
          /\ (/\ IsFile(fs, dlg.dir, dlg.name, PLUGIN_JSON)
              /\ ReadFile(fs, dlg.dir, dlg.name, PLUGIN_JSON)
                   = Dumps(PreviewData(fields)))
             => fs' = fs
      ]_vars

\* an imported skill, switched off and with an unknown key, has been
\* updated from an unedited preview
C27_Witness ==
    /\ last.op = "update_skill"
    /\ last.outcome = "success"
    /\ IsFile(fs, last.dir, last.name, HANDLER_JS)
    /\ Loads(ImportedPluginText).v.m # PreviewData(REVERSE_TEXT_SKILL_DEFAULTS).m
    /\ ReadFile(fs, last.dir, last.name, PLUGIN_JSON) = UpdatedPluginText

\* C28: the listing is a function of the skills folder's contents alone: a
\* second run of populate_skill_dropdown over the same contents (Add New
\* opened and cancelled) yields the sequence the first run yielded,
\* including for names that differ only in letter case.
C28_ListingDeterministic ==
    [][(CancelAdd /\ fs' = fs) => items' = items]_vars

\* C29: a save_config that fails (empty path, or an error while writing
\* either file) leaves the INI file, the in-memory INI_CONFIG and the JSON
\* config file as they were, and the dialog is not accepted.
C29_FailedSaveKeepsConfig ==
    [][(save_config /\ last'.outcome # "success")
       => /\ ini' = ini
          /\ cfg'.ini = cfg.ini
          /\ cfg'.json = cfg.json
          /\ ~last'.accepted
          /\ dlg' = dlg
      ]_vars

\* C30: in the early revision, save_config with some field empty reports
\* one error per empty field and appends nothing to the standard log; with
\* all eight fields non-empty it appends exactly one "Config saved" line and
\* accepts the dialog.
C30_EarlySaveValidates ==
    [][early_save_config
       => IF EarlyErrors(fields) # <<>>
          THEN /\ last'.errors = EarlyErrors(fields)
               /\ cfg'.log = cfg.log
               /\ ~last'.accepted
          ELSE /\ cfg'.log.standard.lines
                    = Append(cfg.log.standard.lines,
                             LogEntry("Config saved",
                                      DumpsCompact(EarlyConfig(fields))))
               /\ cfg'.log.verbose = cfg.log.verbose
               /\ last'.accepted
      ]_vars

====
